---- MODULE Spec2Model ----
(***************************************************************************)
(* crypto/rand/urandom.c: the process-wide source of OS entropy.           *)
(*                                                                         *)
(* The module models every thread of the process as a small program        *)
(* counter machine that repeatedly calls RAND_set_urandom_fd or            *)
(* CRYPTO_sysrand.  System calls (dup, open, getrandom, read, ioctl,       *)
(* fcntl, close) are single atomic steps whose results are drawn from the  *)
(* outcomes the kernel can produce.  abort() freezes the whole process.    *)
(***************************************************************************)
EXTENDS Integers, FiniteSets, Sequences, TLC

(* ----------------------------- bounds --------------------------------- *)
NThreads == 2
MaxCalls == 2
MaxLen == 2
MaxFd == 3
MaxPolls == 2

(* ------------------------ program constants --------------------------- *)
kUnset == -2
kHaveGetrandom == -3
kBitsNeeded == 256

Threads == 1..NThreads
Fds == 0..MaxFd
\* the descriptors the embedding application holds open before any call
UserFds == {0}
\* readings the RNDGETENTCNT query can report
EntropyReadings == {10, 100, 256}

VARIABLES
  use_getrandom,          \* USE_SYS_getrandom is defined in this build
  fips,                   \* BORINGSSL_FIPS is defined in this build
  urandom_fd_requested,   \* static int urandom_fd_requested
  urandom_fd,             \* static int urandom_fd
  once,                   \* CRYPTO_once_t once: "init" | "running" | "done"
  fdtab,                  \* the process's descriptor table
  pc,                     \* where each thread is
  call,                   \* the call each thread is in (or last made)
  arg,                    \* RAND_set_urandom_fd: the caller's handle
  fd,                     \* RAND_set_urandom_fd: local fd after dup
  requested,              \* CRYPTO_sysrand: requested
  len,                    \* fill_with_entropy: len (bytes remaining)
  out,                    \* fill_with_entropy: out (cursor offset)
  buf,                    \* offsets of the caller's buffer written so far
  intr,                   \* the thread's last system call failed with EINTR
  ncalls,                 \* calls started so far by all threads
  ret,                    \* the last call of the thread returned to its caller
  entry,                  \* RAND_set_urandom_fd: urandom_fd when the call was entered
  early,                  \* the thread stored its request before init_once read it
  obs,                    \* the values of urandom_fd the current call has read
  init_fd,                \* init_once: local fd
  first_iteration,        \* init_once: local first_iteration
  polls,                  \* init_once: RNDGETENTCNT queries made
  entropy_bits,           \* init_once: local entropy_bits, the last reading
  flags,                  \* init_once: local flags, the result of F_GETFD
  opens,                  \* successful open("/dev/urandom") calls
  closes,                 \* close() calls made, per descriptor number
  initRuns,               \* executions of the body of init_once
  diag_seed,              \* "entropy pool has not been initialized" messages
  diag_fips,              \* "too few bits" messages
  xfer,                   \* what the last transfer system call of a thread was
  last_r,                 \* fill_with_entropy: what that call returned in r
  req_read,               \* the value init_once read from urandom_fd_requested
  aborted,                \* "none", or the place abort() was called
  abortBy                 \* the thread that called abort()

vars == <<use_getrandom, fips, urandom_fd_requested, urandom_fd, once, fdtab,
          pc, call, arg, fd, requested, len, out, buf, intr, ncalls, ret,
          entry, early, obs, init_fd, first_iteration, polls, entropy_bits,
          flags,
          opens, closes,
          initRuns, diag_seed, diag_fips, xfer, last_r, req_read, aborted,
          abortBy>>

\* variables private to one thread's CRYPTO_sysrand / fill_with_entropy
fillVars == <<requested, len, out, buf, xfer, last_r>>
\* variables private to init_once and its diagnostics
initVars == <<init_fd, req_read, first_iteration, polls, entropy_bits, flags,
             opens,
             diag_seed,
             diag_fips>>
\* variables private to RAND_set_urandom_fd
setVars == <<arg, fd, early>>
\* the build configuration never changes
buildVars == <<use_getrandom, fips>>

(* ------------------------ descriptor table ---------------------------- *)
FreeFd == [open |-> FALSE, cloexec |-> FALSE, origin |-> "none"]

IsOpen(tab, n) == n \in Fds /\ tab[n].open

FreeSet(tab) == {n \in Fds : ~tab[n].open}

\* POSIX: the lowest-numbered descriptor not open in the process
LowestFree(tab) == CHOOSE n \in FreeSet(tab) : \A m \in FreeSet(tab) : n <= m

\* mutant: the caller's descriptor is used as it is, without a duplicate
DupResult_Same(tab, a) == IF ~IsOpen(tab, a) THEN -1 ELSE a

\* dup(a): -1 (EBADF, EMFILE) or the new descriptor
DupResult(tab, a) ==
  IF ~IsOpen(tab, a) \/ FreeSet(tab) = {} THEN -1 ELSE LowestFree(tab)

Allocate(tab, n, how) ==
  [tab EXCEPT ![n] = [open |-> TRUE, cloexec |-> FALSE, origin |-> how]]

\* close(n)
CloseFd(tab, n) == [tab EXCEPT ![n] = FreeFd]

\* mutant: the flag is never applied
SetCloexec_Skip(tab, n) == tab

\* fcntl(fd, F_GETFD): the descriptor flags, FD_CLOEXEC being bit 0
DescriptorFlags(tab, n) == IF IsOpen(tab, n) /\ tab[n].cloexec THEN 1 ELSE 0

\* line 180: flags |= FD_CLOEXEC
WithCloexec(fl) == IF fl % 2 = 1 THEN fl ELSE fl + 1

\* fcntl(fd, F_SETFD, flags | FD_CLOEXEC)
SetCloexec(tab, n) == [tab EXCEPT ![n].cloexec = TRUE]

(* ----------------------------- Init ----------------------------------- *)
Init ==
  /\ use_getrandom \in BOOLEAN
  /\ fips \in BOOLEAN
  /\ urandom_fd_requested = kUnset
  /\ urandom_fd = kUnset
  /\ once = "init"
  /\ fdtab = [n \in Fds |-> IF n \in UserFds
                            THEN [open |-> TRUE, cloexec |-> FALSE, origin |-> "user"]
                            ELSE FreeFd]
  /\ pc = [t \in Threads |-> "idle"]
  /\ call = [t \in Threads |-> "none"]
  /\ arg = [t \in Threads |-> kUnset]
  /\ fd = [t \in Threads |-> kUnset]
  /\ requested = [t \in Threads |-> 0]
  /\ len = [t \in Threads |-> 0]
  /\ out = [t \in Threads |-> 0]
  /\ buf = [t \in Threads |-> {}]
  /\ intr = [t \in Threads |-> FALSE]
  /\ ncalls = 0
  /\ ret = [t \in Threads |-> FALSE]
  /\ entry = [t \in Threads |-> kUnset]
  /\ early = [t \in Threads |-> FALSE]
  /\ obs = [t \in Threads |-> {}]
  /\ init_fd = kUnset
  /\ first_iteration = 1
  /\ polls = 0
  /\ entropy_bits = 0
  /\ flags = 0
  /\ opens = 0
  /\ closes = [n \in Fds |-> 0]
  /\ initRuns = 0
  /\ diag_seed = 0
  /\ diag_fips = 0
  /\ xfer = [t \in Threads |-> "none"]
  /\ last_r = [t \in Threads |-> "none"]
  /\ req_read = kUnset
  /\ aborted = "none"
  /\ abortBy = 0

Running == aborted = "none"

\* abort(): the process is gone; nothing else changes
Abort(t, where) ==
  /\ aborted' = where
  /\ abortBy' = t

NoAbort == UNCHANGED <<aborted, abortBy>>

(* -------------------- CRYPTO_once(&once, init_once) ------------------- *)
\* mutants: the guard lets a second caller run the initializer
OnceMayRun_Unguarded(o) == o # "done"

OnceMayRun_Always(o) == TRUE

\* the caller that finds the guard untouched runs the initializer
OnceMayRun(o) == o = "init"

\* mutant: callers do not wait for a running initializer
OncePassed_Started(o) == o # "init"

\* a caller gets past CRYPTO_once only when the initializer has returned
OncePassed(o) == o = "done"

\* where a thread resumes after CRYPTO_once
Continuation(c) == IF c = "set" THEN "set_check" ELSE "fill"

\* init_once has executed its read of urandom_fd_requested
InitHasRead ==
  \/ once = "done"
  \/ once = "running" /\ \A u \in Threads : pc[u] # "init_read"

CRYPTO_once(t) ==
  /\ Running
  /\ pc[t] \in {"set_once", "sys_once"}
  /\ \/ /\ OnceMayRun(once)
        /\ once' = "running"
        /\ initRuns' = initRuns + 1
        /\ pc' = [pc EXCEPT ![t] = "init_read"]
     \/ /\ OncePassed(once)
        /\ pc' = [pc EXCEPT ![t] = Continuation(call[t])]
        /\ UNCHANGED <<once, initRuns>>
  /\ NoAbort
  /\ UNCHANGED <<buildVars, urandom_fd_requested, urandom_fd, fdtab, call,
                 setVars, fillVars, intr, ncalls, ret, entry, obs, init_fd,
                 req_read, first_iteration, polls, entropy_bits, flags, opens,
                 closes,
                 diag_seed, diag_fips>>

(* --------------------------- init_once -------------------------------- *)
\* mutant: the pending request is ignored
PendingRequest_Unset(req) == kUnset

\* lines 102-104: read the pending request under the read lock
PendingRequest(req) == req

\* the step that follows the getrandom probing (lines 106-129)
InitFirstStep(g) == IF g THEN "init_probe" ELSE "init_open"

InitRead(t) ==
  /\ Running
  /\ pc[t] = "init_read"
  /\ init_fd' = PendingRequest(urandom_fd_requested)
  /\ req_read' = PendingRequest(urandom_fd_requested)
  /\ pc' = [pc EXCEPT ![t] = InitFirstStep(use_getrandom)]
  /\ NoAbort
  /\ UNCHANGED <<buildVars, urandom_fd_requested, urandom_fd, once, fdtab,
                 call, setVars, fillVars, intr, ncalls, ret, entry, obs,
                 first_iteration, polls, entropy_bits, flags, opens, closes,
                 initRuns,
                 diag_seed,
                 diag_fips>>

\* lines 108-118: syscall(SYS_getrandom, &dummy, 1, GRND_NONBLOCK)
InitProbe(t) ==
  /\ Running
  /\ pc[t] = "init_probe"
  /\ \/ /\ urandom_fd' = kHaveGetrandom          \* getrandom_ret == 1
        /\ pc' = [pc EXCEPT ![t] = "init_ret"]
        /\ UNCHANGED diag_seed
     \/ /\ diag_seed' = diag_seed + 1             \* -1, errno == EAGAIN
        /\ pc' = [pc EXCEPT ![t] = "init_block"]
        /\ UNCHANGED urandom_fd
     \/ /\ pc' = [pc EXCEPT ![t] = "init_open"]   \* any other failure
        /\ UNCHANGED <<urandom_fd, diag_seed>>
  /\ NoAbort
  /\ UNCHANGED <<buildVars, urandom_fd_requested, once, fdtab, call, setVars,
                 fillVars, intr, ncalls, ret, entry, obs, init_fd,
                 req_read, first_iteration, polls, entropy_bits, flags, opens,
                 closes,
                 initRuns, diag_fips>>

\* lines 119-127: the blocking getrandom, retried on EINTR
InitBlock(t) ==
  /\ Running
  /\ pc[t] = "init_block"
  /\ \/ /\ intr' = [intr EXCEPT ![t] = TRUE]      \* -1, errno == EINTR
        /\ UNCHANGED <<urandom_fd, pc>>
     \/ /\ urandom_fd' = kHaveGetrandom           \* getrandom_ret == 1
        /\ intr' = [intr EXCEPT ![t] = FALSE]
        /\ pc' = [pc EXCEPT ![t] = "init_ret"]
     \/ /\ intr' = [intr EXCEPT ![t] = FALSE]     \* any other failure
        /\ pc' = [pc EXCEPT ![t] = "init_open"]
        /\ UNCHANGED urandom_fd
  /\ NoAbort
  /\ UNCHANGED <<buildVars, urandom_fd_requested, once, fdtab, call, setVars,
                 fillVars, ncalls, ret, entry, obs, initVars, closes,
                 initRuns>>

\* mutant: the device is opened even when a descriptor was requested
MustOpen_Always(f) == TRUE

\* line 131: open /dev/urandom only when no descriptor was requested
MustOpen(f) == f = kUnset

\* the step that follows a usable descriptor (lines 141, 173)
AfterFd(b) == IF b THEN "init_fips" ELSE "init_getfd"

\* mutant: a failed open is not noticed
Unusable_Never(f) == FALSE

\* line 137: no descriptor was obtained
Unusable(f) == f < 0

\* lines 131-139
InitOpen(t) ==
  /\ Running
  /\ pc[t] = "init_open"
  /\ \/ /\ ~MustOpen(init_fd)
        /\ IF Unusable(init_fd)
           THEN Abort(t, "init_nofd") /\ UNCHANGED pc
           ELSE NoAbort /\ pc' = [pc EXCEPT ![t] = AfterFd(fips)]
        /\ UNCHANGED <<init_fd, fdtab, opens, intr>>
     \/ /\ MustOpen(init_fd)                      \* -1, errno == EINTR
        /\ intr' = [intr EXCEPT ![t] = TRUE]
        /\ NoAbort
        /\ UNCHANGED <<init_fd, fdtab, opens, pc>>
     \/ /\ MustOpen(init_fd)                      \* open succeeded
        /\ FreeSet(fdtab) # {}
        /\ init_fd' = LowestFree(fdtab)
        /\ fdtab' = Allocate(fdtab, LowestFree(fdtab), "urandom")
        /\ opens' = opens + 1
        /\ intr' = [intr EXCEPT ![t] = FALSE]
        /\ pc' = [pc EXCEPT ![t] = AfterFd(fips)]
        /\ NoAbort
     \/ /\ MustOpen(init_fd)                      \* open failed: fd == -1
        /\ init_fd' = -1
        /\ intr' = [intr EXCEPT ![t] = FALSE]
        /\ IF Unusable(-1)
           THEN Abort(t, "init_nofd") /\ UNCHANGED pc
           ELSE NoAbort /\ pc' = [pc EXCEPT ![t] = AfterFd(fips)]
        /\ UNCHANGED <<fdtab, opens>>
  /\ UNCHANGED <<buildVars, urandom_fd_requested, urandom_fd, once, call,
                 setVars, fillVars, ncalls, ret, entry, obs, req_read,
                 first_iteration, polls, entropy_bits, flags, closes, initRuns,
                 diag_seed,
                 diag_fips>>

\* mutant: any reading ends the wait
Enough_Any(bits) == TRUE

\* line 157: the reading that ends the polling loop
Enough(bits) == bits >= kBitsNeeded

\* mutant: every reading below the threshold is announced
Announce_Always(first) == TRUE

\* line 161: the too-few-bits message is printed on the first iteration only
Announce(first) == first = 1

\* lines 146-170: one RNDGETENTCNT query of the FIPS polling loop
InitFips(t) ==
  /\ Running
  /\ pc[t] = "init_fips"
  /\ \/ /\ Abort(t, "init_ioctl")                 \* ioctl failed
        /\ UNCHANGED <<pc, polls, entropy_bits, first_iteration, diag_fips>>
     \/ \E bits \in EntropyReadings :
          /\ polls' = polls + 1
          /\ entropy_bits' = bits
          /\ NoAbort
          /\ IF Enough(bits)
             THEN /\ pc' = [pc EXCEPT ![t] = "init_getfd"]
                  /\ UNCHANGED <<first_iteration, diag_fips>>
             ELSE /\ polls < MaxPolls
                  /\ diag_fips' = IF Announce(first_iteration)
                                  THEN diag_fips + 1 ELSE diag_fips
                  /\ first_iteration' = 0
                  /\ UNCHANGED pc
  /\ UNCHANGED <<buildVars, urandom_fd_requested, urandom_fd, once, fdtab,
                 call, setVars, fillVars, intr, ncalls, ret, entry, obs,
                 init_fd, req_read, flags, opens, closes, initRuns, diag_seed>>

\* lines 173-179: fcntl(fd, F_GETFD)
InitGetfd(t) ==
  /\ Running
  /\ pc[t] = "init_getfd"
  /\ \/ /\ flags' = DescriptorFlags(fdtab, init_fd) \* flags != -1
        /\ pc' = [pc EXCEPT ![t] = "init_setfd"]
        /\ NoAbort
     \/ /\ flags' = -1                             \* -1, errno == ENOSYS
        /\ pc' = [pc EXCEPT ![t] = "init_commit"]
        /\ NoAbort
     \/ /\ flags' = -1                             \* -1, any other errno
        /\ Abort(t, "init_getfd")
        /\ UNCHANGED pc
  /\ UNCHANGED <<buildVars, urandom_fd_requested, urandom_fd, once, fdtab,
                 call, setVars, fillVars, intr, ncalls, ret, entry, obs,
                 init_fd, req_read, first_iteration, polls, entropy_bits,
                 opens, diag_seed, diag_fips, closes, initRuns>>

\* lines 180-183: fcntl(fd, F_SETFD, flags | FD_CLOEXEC)
InitSetfd(t) ==
  /\ Running
  /\ pc[t] = "init_setfd"
  /\ flags' = WithCloexec(flags)                  \* flags |= FD_CLOEXEC
  /\ \/ /\ fdtab' = SetCloexec(fdtab, init_fd)
        /\ pc' = [pc EXCEPT ![t] = "init_commit"]
        /\ NoAbort
     \/ /\ Abort(t, "init_setfd")                 \* fcntl returned -1
        /\ UNCHANGED <<fdtab, pc>>
  /\ UNCHANGED <<buildVars, urandom_fd_requested, urandom_fd, once, call,
                 setVars, fillVars, intr, ncalls, ret, entry, obs, init_fd,
                 req_read, first_iteration, polls, entropy_bits, opens,
                 diag_seed, diag_fips, closes, initRuns>>

\* line 185: the descriptor init_once commits
CommittedFd(f) == f

InitCommit(t) ==
  /\ Running
  /\ pc[t] = "init_commit"
  /\ urandom_fd' = CommittedFd(init_fd)
  /\ pc' = [pc EXCEPT ![t] = "init_ret"]
  /\ NoAbort
  /\ UNCHANGED <<buildVars, urandom_fd_requested, once, fdtab, call, setVars,
                 fillVars, intr, ncalls, ret, entry, obs, initVars, closes,
                 initRuns>>

\* init_once returns: its loop locals are gone, CRYPTO_once marks the guard
\* done and lets callers through
InitRet(t) ==
  /\ Running
  /\ pc[t] = "init_ret"
  /\ once' = "done"
  /\ first_iteration' = 1
  /\ polls' = 0
  /\ pc' = [pc EXCEPT ![t] = Continuation(call[t])]
  /\ NoAbort
  /\ UNCHANGED <<buildVars, urandom_fd_requested, urandom_fd, fdtab, call,
                 setVars, fillVars, intr, ncalls, ret, entry, obs, init_fd,
                 req_read, entropy_bits, flags, opens, diag_seed, diag_fips,
                 closes,
                 initRuns>>

(* ------------------------------ callers ------------------------------- *)
\* Threads are interchangeable, so they are numbered in the order of their
\* first call: a thread makes its first call only after every lower-numbered
\* thread has made one.
MayCall(t) ==
  /\ pc[t] = "idle"
  /\ ncalls < MaxCalls
  /\ call[t] = "none" => \A u \in Threads : u < t => call[u] # "none"

(* ----------------------- RAND_set_urandom_fd -------------------------- *)
\* the handles a caller passes: a descriptor the application holds, the
\* descriptor the library has committed, or a number that is not open (the
\* lowest such number stands for all of them: dup fails with EBADF)
HandleArgs(tab, ufd) ==
  {n \in UserFds \cup {ufd} : IsOpen(tab, n)}
    \cup (IF FreeSet(tab) = {} THEN {} ELSE {LowestFree(tab)})

\* lines 188-192: entry and fd = dup(fd)
SetCall(t) ==
  /\ Running
  /\ MayCall(t)
  /\ \E a \in HandleArgs(fdtab, urandom_fd) :
       /\ arg' = [arg EXCEPT ![t] = a]
       /\ fd' = [fd EXCEPT ![t] = DupResult(fdtab, a)]
       /\ IF DupResult(fdtab, a) < 0
          THEN /\ Abort(t, "dup")
               /\ UNCHANGED <<fdtab, pc>>
          ELSE /\ NoAbort
               /\ fdtab' = Allocate(fdtab, DupResult(fdtab, a), "dup")
               /\ pc' = [pc EXCEPT ![t] = "set_store"]
  /\ call' = [call EXCEPT ![t] = "set"]
  /\ ncalls' = ncalls + 1
  /\ ret' = [ret EXCEPT ![t] = FALSE]
  /\ entry' = [entry EXCEPT ![t] = urandom_fd]
  /\ early' = [early EXCEPT ![t] = FALSE]
  /\ requested' = [requested EXCEPT ![t] = 0]
  /\ len' = [len EXCEPT ![t] = 0]
  /\ out' = [out EXCEPT ![t] = 0]
  /\ buf' = [buf EXCEPT ![t] = {}]
  /\ xfer' = [xfer EXCEPT ![t] = "none"]
  /\ last_r' = [last_r EXCEPT ![t] = "none"]
  /\ obs' = [obs EXCEPT ![t] = {}]
  /\ UNCHANGED <<buildVars, urandom_fd_requested, urandom_fd, once, intr,
                 initVars, closes, initRuns>>

\* lines 194-196: urandom_fd_requested = fd under the write lock
SetStore(t) ==
  /\ Running
  /\ pc[t] = "set_store"
  /\ urandom_fd_requested' = fd[t]
  /\ early' = [early EXCEPT ![t] = ~InitHasRead]
  /\ pc' = [pc EXCEPT ![t] = "set_once"]
  /\ NoAbort
  /\ UNCHANGED <<buildVars, urandom_fd, once, fdtab, call, arg, fd, fillVars,
                 intr, ncalls, ret, entry, obs, initVars, closes, initRuns>>

\* mutant: the duplicate is kept open when getrandom is in use
SetOutcome_KeepOpen(ufd, f) ==
  IF ufd = kHaveGetrandom \/ ufd = f THEN "return" ELSE "abort"

\* mutant: an accepted duplicate is closed too
SetOutcome_CloseAccepted(ufd, f) ==
  IF ufd = kHaveGetrandom \/ ufd = f THEN "close" ELSE "abort"

\* mutant: a mismatch is ignored
SetOutcome_NoAbort(ufd, f) == IF ufd = kHaveGetrandom THEN "close" ELSE "return"

\* mutant: kHaveGetrandom is compared like a descriptor
SetOutcome_NoModern(ufd, f) == IF ufd # f THEN "abort" ELSE "return"

\* lines 199-203: what the call does with the value of urandom_fd it reads
SetOutcome(ufd, f) ==
  IF ufd = kHaveGetrandom THEN "close"
  ELSE IF ufd # f THEN "abort"
  ELSE "return"

SetCheck(t) ==
  /\ Running
  /\ pc[t] = "set_check"
  /\ obs' = [obs EXCEPT ![t] = obs[t] \cup {urandom_fd}]
  /\ \/ /\ SetOutcome(urandom_fd, fd[t]) = "close"
        /\ fdtab' = CloseFd(fdtab, fd[t])
        /\ closes' = [closes EXCEPT ![fd[t]] = closes[fd[t]] + 1]
        /\ pc' = [pc EXCEPT ![t] = "idle"]
        /\ ret' = [ret EXCEPT ![t] = TRUE]
        /\ NoAbort
     \/ /\ SetOutcome(urandom_fd, fd[t]) = "abort"
        /\ Abort(t, "set_mismatch")
        /\ UNCHANGED <<fdtab, closes, pc, ret>>
     \/ /\ SetOutcome(urandom_fd, fd[t]) = "return"
        /\ pc' = [pc EXCEPT ![t] = "idle"]
        /\ ret' = [ret EXCEPT ![t] = TRUE]
        /\ NoAbort
        /\ UNCHANGED <<fdtab, closes>>
  /\ UNCHANGED <<buildVars, urandom_fd_requested, urandom_fd, once, call,
                 setVars, fillVars, intr, ncalls, entry, initVars, initRuns>>

(* ------------------ CRYPTO_sysrand / fill_with_entropy ---------------- *)
\* mutant: the zero-length check is missing
ReturnsAtOnce_Never(n) == FALSE

\* lines 255-257: a zero-length request returns at once
ReturnsAtOnce(n) == n = 0

\* lines 254-259
SysrandCall(t) ==
  /\ Running
  /\ MayCall(t)
  /\ \E n \in 0..MaxLen :
       /\ requested' = [requested EXCEPT ![t] = n]
       /\ len' = [len EXCEPT ![t] = n]
       /\ pc' = [pc EXCEPT ![t] = IF ReturnsAtOnce(n) THEN "idle" ELSE "sys_once"]
       /\ ret' = [ret EXCEPT ![t] = ReturnsAtOnce(n)]
  /\ out' = [out EXCEPT ![t] = 0]
  /\ buf' = [buf EXCEPT ![t] = {}]
  /\ xfer' = [xfer EXCEPT ![t] = "none"]
  /\ last_r' = [last_r EXCEPT ![t] = "none"]
  /\ call' = [call EXCEPT ![t] = "sysrand"]
  /\ ncalls' = ncalls + 1
  /\ arg' = [arg EXCEPT ![t] = kUnset]
  /\ fd' = [fd EXCEPT ![t] = kUnset]
  /\ early' = [early EXCEPT ![t] = FALSE]
  /\ entry' = [entry EXCEPT ![t] = kUnset]
  /\ obs' = [obs EXCEPT ![t] = {}]
  /\ NoAbort
  /\ UNCHANGED <<buildVars, urandom_fd_requested, urandom_fd, once, fdtab,
                 intr, initVars, closes, initRuns>>

\* mutant: the fill engine reads the descriptor whatever was committed
Mechanism_ReadAlways(ufd) == "read"

\* line 218: the mechanism a transfer uses
Mechanism(ufd) == IF ufd = kHaveGetrandom THEN "getrandom" ELSE "read"

\* the kernel can deliver data: getrandom is compiled in, or the descriptor
\* that read() is given is open
CanDeliver(ufd) ==
  IF Mechanism(ufd) = "getrandom" THEN use_getrandom ELSE IsOpen(fdtab, ufd)

\* line 246: out += r
NextOut(o, r) == o + r

\* line 247: len -= r
NextLen(l, r) == l - r

\* line 215: the loop goes on while len > 0
LoopDone(l) == ~(l > 0)

\* mutant: every transfer asks for the whole request again
XferCount_Whole(req, l) == req

\* lines 221, 239: the count each transfer system call is given
XferCount(req, l) == l

\* mutant: an interrupted call is not repeated
RetryOn_Never(e) == FALSE

\* lines 222, 240: the do-while repeats the call on r == -1 && errno == EINTR
RetryOn(e) == e = "EINTR"

\* mutant: only a negative result is an error
Fatal_NegativeOnly(r) == r < 0

\* line 243: the result that makes fill_with_entropy return 0, on which
\* CRYPTO_sysrand aborts (lines 261-263)
Fatal(r) == r <= 0

\* what a transfer returned: a byte count, 0 (end of file) or -1
ResultClass(r) ==
  IF r > 0 THEN "bytes" ELSE IF r = 0 THEN "zero" ELSE "minus_one"

\* errno values of a failed getrandom or read
Errnos == {"EINTR", "EIO"}

\* lines 215-250: one transfer system call of the loop, and what follows it
Fill(t) ==
  /\ Running
  /\ pc[t] = "fill"
  /\ obs' = [obs EXCEPT ![t] = obs[t] \cup {urandom_fd}]
  /\ xfer' = [xfer EXCEPT ![t] = Mechanism(urandom_fd)]
  /\ \/ \E e \in Errnos :                         \* r == -1 with errno e
          /\ intr' = [intr EXCEPT ![t] = (e = "EINTR")]
          /\ last_r' = [last_r EXCEPT ![t] = ResultClass(-1)]
          /\ IF RetryOn(e) \/ ~Fatal(-1) THEN NoAbort ELSE Abort(t, "fill")
          /\ UNCHANGED <<len, out, buf, pc, ret>>
     \/ /\ CanDeliver(urandom_fd)                 \* r bytes transferred
        /\ \E r \in 1..XferCount(requested[t], len[t]) :
             /\ last_r' = [last_r EXCEPT ![t] = ResultClass(r)]
             /\ buf' = [buf EXCEPT ![t] = buf[t] \cup (out[t]..(out[t] + r - 1))]
             /\ out' = [out EXCEPT ![t] = NextOut(out[t], r)]
             /\ len' = [len EXCEPT ![t] = NextLen(len[t], r)]
             /\ pc' = [pc EXCEPT ![t] =
                         IF LoopDone(NextLen(len[t], r)) THEN "idle" ELSE "fill"]
             /\ ret' = [ret EXCEPT ![t] = LoopDone(NextLen(len[t], r))]
        /\ intr' = [intr EXCEPT ![t] = FALSE]
        /\ NoAbort
     \/ /\ intr' = [intr EXCEPT ![t] = FALSE]     \* r == 0: end of file
        /\ last_r' = [last_r EXCEPT ![t] = ResultClass(0)]
        /\ IF Fatal(0) THEN Abort(t, "fill") ELSE NoAbort
        /\ UNCHANGED <<len, out, buf, pc, ret>>
  /\ UNCHANGED <<buildVars, urandom_fd_requested, urandom_fd, once, fdtab,
                 call, setVars, requested, ncalls, entry, initVars, closes,
                 initRuns>>

(* --------------------------- the process ------------------------------ *)
Step(t) ==
  \/ SetCall(t)
  \/ SetStore(t)
  \/ CRYPTO_once(t)
  \/ SetCheck(t)
  \/ SysrandCall(t)
  \/ Fill(t)
  \/ InitRead(t)
  \/ InitProbe(t)
  \/ InitBlock(t)
  \/ InitOpen(t)
  \/ InitFips(t)
  \/ InitGetfd(t)
  \/ InitSetfd(t)
  \/ InitCommit(t)
  \/ InitRet(t)

Next == \E t \in Threads : Step(t)

Spec == Init /\ [][Next]_vars

\* a step of thread t whose system call, if any, was not interrupted
Uninterrupted(t) == Step(t) /\ ~intr'[t]

\* every thread that can take a step eventually takes one, and no system call
\* is interrupted for ever: threads are scheduled by the kernel, every system
\* call returns, and each is interrupted only finitely many times
FairSpec == Spec /\ \A t \in Threads : WF_vars(Uninterrupted(t))

(* ============================== claims ================================ *)
\* the selector has committed a descriptor of the legacy device
LegacyCommitted == urandom_fd >= 0

\* thread t is in, or has returned from, a call of the given kind
InCall(t, kind) == call[t] = kind

(* C1: however many threads race on their first call, the body of init_once
   runs at most once, a thread is past CRYPTO_once (at the comparison of
   RAND_set_urandom_fd, in the fill loop, or having read urandom_fd) only
   when that single run has returned, and every value of urandom_fd any
   thread has read is the one committed value, never kUnset. *)
C1_InitOnceSameValue ==
  /\ initRuns <= 1
  /\ \A t \in Threads :
       (pc[t] \in {"set_check", "fill"} \/ obs[t] # {})
         => (initRuns = 1 /\ once = "done")
  /\ \A t \in Threads : obs[t] \subseteq {urandom_fd}
  /\ \A t \in Threads : obs[t] # {} => urandom_fd # kUnset

\* a RAND_set_urandom_fd call entered before anything was committed and a
\* CRYPTO_sysrand call of another thread have both read urandom_fd, and read
\* the same value
C1_Witness ==
  \E t, u \in Threads :
    /\ t # u
    /\ InCall(t, "set") /\ entry[t] = kUnset
    /\ InCall(u, "sysrand") /\ xfer[u] # "none"
    /\ \E v \in {kHaveGetrandom} \cup Fds : obs[t] = {v} /\ obs[u] = {v}
    /\ initRuns = 1

(* C2: once urandom_fd holds a value other than kUnset, no step of any
   thread changes it. *)
C2_CommittedNeverChanges ==
  [][urandom_fd # kUnset => urandom_fd' = urandom_fd]_vars

\* a RAND_set_urandom_fd call entered after a legacy descriptor was
\* committed has stored its request, passed the guard and reached its
\* comparison, and the committed descriptor is still the one it found
C2_Witness ==
  \E t \in Threads :
    /\ InCall(t, "set")
    /\ entry[t] >= 0
    /\ urandom_fd = entry[t]
    /\ urandom_fd_requested = fd[t]
    /\ aborted = "set_mismatch" /\ abortBy = t

(* C3: in every state of a CRYPTO_sysrand call the bytes delivered so far
   plus the remaining count equal the requested length, the bytes written
   are exactly the offsets below the cursor, and the call has returned only
   with remaining count 0 and exactly the offsets 0..requested-1 written:
   none beyond, however the transfers were split. *)
C3_ExactFill ==
  \A t \in Threads :
    InCall(t, "sysrand") =>
      /\ len[t] >= 0
      /\ out[t] + len[t] = requested[t]
      /\ buf[t] = 0..(out[t] - 1)
      /\ pc[t] = "idle" => ret[t]
      /\ ret[t] => (len[t] = 0 /\ buf[t] = 0..(requested[t] - 1))

\* a request of the largest length is in the loop after partial transfers
\* have delivered all but its last byte, while another call of the same
\* length has returned
C3_Witness ==
  \E t, u \in Threads :
    /\ InCall(t, "sysrand") /\ pc[t] = "fill"
    /\ requested[t] = MaxLen /\ len[t] = 1
    /\ buf[t] = 0..(MaxLen - 2)
    /\ InCall(u, "sysrand") /\ ret[u]
    /\ requested[u] = MaxLen /\ buf[u] = 0..(MaxLen - 1)

(* C4: a zero-length CRYPTO_sysrand call is never found anywhere but
   returned, with nothing written, no transfer made and urandom_fd not read;
   and the step that makes such a call (a call starts and no thread leaves
   "idle") changes neither urandom_fd, nor the once-guard, nor the pending
   override, nor the descriptor table. *)
C4_ZeroLengthNoOp ==
  [][/\ \A t \in Threads :
          (call'[t] = "sysrand" /\ requested'[t] = 0)
            => /\ pc'[t] = "idle" /\ ret'[t]
               /\ buf'[t] = {} /\ xfer'[t] = "none" /\ obs'[t] = {}
     /\ (ncalls' = ncalls + 1 /\ pc' = pc /\ aborted' = aborted)
          => UNCHANGED <<urandom_fd, once, urandom_fd_requested, initRuns,
                         fdtab, closes, opens, init_fd, req_read>>]_vars

\* a zero-length call has returned while nothing is resolved and an override
\* is pending
C4_Witness ==
  \E t \in Threads :
    /\ InCall(t, "sysrand") /\ requested[t] = 0 /\ ret[t]
    /\ once = "init" /\ urandom_fd = kUnset /\ initRuns = 0
    /\ urandom_fd_requested # kUnset

(* C5: a transfer that fails with EINTR leaves cursor, remaining length and
   buffer as they were, stays in the loop and does not abort; and, when
   threads are scheduled fairly and no transfer is interrupted for ever, a
   call in the fill loop leads to the complete fill having been returned
   unless the process has been aborted. *)
C5_EintrTransparent ==
  /\ [][\A t \in Threads :
          (pc[t] = "fill" /\ ~intr[t] /\ intr'[t])
            => /\ len'[t] = len[t] /\ out'[t] = out[t] /\ buf'[t] = buf[t]
               /\ pc'[t] = "fill"
               /\ aborted' = "none"]_vars
  /\ \A t \in Threads :
       (pc[t] = "fill" /\ Running)
         ~> (~Running \/ (ret[t] /\ buf[t] = 0..(requested[t] - 1)))

\* after a partial transfer, the next transfer of the call has been
\* interrupted and is about to be repeated
C5_Witness ==
  \E t \in Threads :
    /\ InCall(t, "sysrand") /\ pc[t] = "fill" /\ Running
    /\ intr[t]
    /\ out[t] > 0 /\ len[t] > 0

(* C6: when init_once has read a pending override d, it never opens
   /dev/urandom, and a legacy descriptor it commits is d itself, a
   descriptor made by the registry's dup; when it read no pending value, the
   legacy descriptor it commits is the one it opened.  A call that stored
   its duplicate before init_once read implies a value was pending. *)
C6_OverridePrecedence ==
  /\ (InitHasRead /\ req_read # kUnset) => opens = 0
  /\ \A t \in Threads :
       (InCall(t, "set") /\ early[t] /\ InitHasRead) => req_read # kUnset
  /\ LegacyCommitted =>
       IF req_read # kUnset
       THEN urandom_fd = req_read /\ fdtab[urandom_fd].origin = "dup"
       ELSE opens = 1 /\ fdtab[urandom_fd].origin = "urandom"

\* the duplicate a returned RAND_set_urandom_fd call made was pending when
\* init_once read and is the committed descriptor; nothing was opened
C6_Witness ==
  \E t \in Threads :
    /\ InCall(t, "set") /\ ret[t] /\ early[t]
    /\ LegacyCommitted
    /\ req_read = fd[t] /\ urandom_fd = fd[t]
    /\ opens = 0

(* C7: a RAND_set_urandom_fd call entered when a legacy descriptor h was
   already committed, with a handle other than h, never returns: at its
   comparison the values differ, so it aborts.  The same holds for every
   call of a process whose init_once read the pending value as unset and
   committed a descriptor it opened. *)
C7_LateSetAborts ==
  \A t \in Threads :
    InCall(t, "set") =>
      /\ (entry[t] >= 0 /\ arg[t] # entry[t])
           => (~ret[t] /\ (pc[t] = "set_check" => urandom_fd # fd[t]))
      /\ (LegacyCommitted /\ req_read = kUnset)
           => (~ret[t] /\ (pc[t] = "set_check" => urandom_fd # fd[t]))

\* such a late call has aborted the process at its comparison
C7_Witness ==
  /\ aborted = "set_mismatch"
  /\ \E t \in Threads :
       /\ abortBy = t
       /\ entry[t] >= 0
       /\ arg[t] # entry[t]

(* C8 (as claimed): a RAND_set_urandom_fd call entered after LegacyDevice(h)
   was committed and given the handle h itself does not abort the process at
   its comparison. *)
C8_MatchingSetAccepted ==
  \A t \in Threads :
    (InCall(t, "set") /\ entry[t] >= 0 /\ arg[t] = entry[t])
      => ~(aborted = "set_mismatch" /\ abortBy = t)

(* C8 (amended): with a legacy descriptor h committed, the only
   RAND_set_urandom_fd call that returns is one entered before the commit
   whose own duplicate is h; its comparison step returns normally and changes
   neither urandom_fd nor the descriptor table.  A call entered after the
   commit never returns, whatever handle it was given, h included: its fresh
   duplicate differs from h. *)
C8_OnlyAdoptedSetAccepted ==
  [][/\ \A t \in Threads :
          call'[t] = "set" =>
            /\ (ret'[t] /\ urandom_fd' >= 0)
                 => (fd'[t] = urandom_fd' /\ entry'[t] = kUnset)
            /\ entry'[t] >= 0 => (~ret'[t] /\ fd'[t] # entry'[t])
     /\ \A t \in Threads :
          (/\ pc[t] = "set_check"
           /\ LegacyCommitted /\ fd[t] = urandom_fd
           /\ (pc'[t] # pc[t] \/ (aborted' # aborted /\ abortBy' = t)))
            => /\ pc'[t] = "idle" /\ ret'[t]
               /\ aborted' = "none"
               /\ UNCHANGED <<urandom_fd, fdtab, closes>>]_vars

\* the call whose duplicate was adopted has returned, and a later call given
\* the committed descriptor itself has aborted the process
C8_Witness ==
  \E t, u \in Threads :
    /\ t # u
    /\ InCall(t, "set") /\ ret[t] /\ fd[t] = urandom_fd /\ LegacyCommitted
    /\ InCall(u, "set") /\ entry[u] = urandom_fd /\ arg[u] = urandom_fd
    /\ aborted = "set_mismatch" /\ abortBy = u

(* C9 (as claimed): when two or more RAND_set_urandom_fd calls have all
   stored their duplicates before init_once read the pending value, none of
   them aborts the process. *)
C9_EarlySetsNeverAbort ==
  Cardinality({t \in Threads : InCall(t, "set") /\ early[t]}) >= 2
    => ~(aborted = "set_mismatch")

(* C9 (amended): init_once resolves with the value of urandom_fd_requested
   at its read, the last one written before it.  A RAND_set_urandom_fd call
   that stored its duplicate before that read and takes its comparison step
   returns when kHaveGetrandom is committed or when its duplicate is the one
   init_once read; otherwise (a legacy descriptor committed, and a later
   writer's duplicate read) it aborts the process. *)
C9_LastWriterAdopted ==
  [][/\ \A t \in Threads :
          (pc[t] = "init_read" /\ pc'[t] # "init_read")
            => (init_fd' = urandom_fd_requested /\ req_read' = urandom_fd_requested)
     /\ \A t \in Threads :
          (/\ pc[t] = "set_check" /\ early[t]
           /\ (pc'[t] # pc[t] \/ (aborted' # aborted /\ abortBy' = t)))
            => IF urandom_fd = kHaveGetrandom \/ fd[t] = req_read
               THEN ret'[t] /\ aborted' = "none"
               ELSE aborted' = "set_mismatch" /\ urandom_fd = req_read]_vars

\* two calls stored before init_once read; the later writer's duplicate was
\* committed and it returned, the earlier writer aborted
C9_Witness ==
  \E t, u \in Threads :
    /\ t # u
    /\ InCall(t, "set") /\ early[t] /\ ret[t] /\ fd[t] = urandom_fd
    /\ InCall(u, "set") /\ early[u] /\ fd[u] # urandom_fd
    /\ urandom_fd_requested = fd[t]
    /\ aborted = "set_mismatch" /\ abortBy = u

(* C10: a successful non-blocking probe commits kHaveGetrandom whatever
   override is pending; a RAND_set_urandom_fd call that takes its comparison
   step with urandom_fd = kHaveGetrandom closes its own duplicate and nothing
   else, returns and does not abort; and with kHaveGetrandom committed no
   call ever aborts on a mismatch. *)
C10_ModernDiscardsOverride ==
  [][/\ \A t \in Threads :
          (pc[t] = "init_probe" /\ pc'[t] = "init_ret")
            => urandom_fd' = kHaveGetrandom
     /\ \A t \in Threads :
          (/\ pc[t] = "set_check"
           /\ urandom_fd = kHaveGetrandom
           /\ (pc'[t] # pc[t] \/ (aborted' # aborted /\ abortBy' = t)))
            => /\ fdtab' = CloseFd(fdtab, fd[t])
               /\ closes' = [closes EXCEPT ![fd[t]] = closes[fd[t]] + 1]
               /\ pc'[t] = "idle" /\ ret'[t]
               /\ aborted' = "none"
     /\ urandom_fd' = kHaveGetrandom => aborted' # "set_mismatch"]_vars

\* with an override pending when init_once read, kHaveGetrandom was
\* committed; the call that registered it returned, and so did a call made
\* after the resolution
C10_Witness ==
  /\ urandom_fd = kHaveGetrandom
  /\ req_read # kUnset
  /\ \E t, u \in Threads :
       /\ t # u
       /\ InCall(t, "set") /\ ret[t] /\ early[t] /\ fd[t] = req_read
       /\ InCall(u, "set") /\ ret[u] /\ entry[u] = kHaveGetrandom
       /\ ~IsOpen(fdtab, fd[t])

\* no caller has been handed anything: no call that needs the source has
\* returned and no byte has been written to any buffer
NothingDelivered ==
  \A u \in Threads :
    /\ buf[u] = {}
    /\ (InCall(u, "sysrand") /\ requested[u] > 0) => ~ret[u]
    /\ InCall(u, "set") => ~ret[u]

(* C11: when init_once reaches the open with no override read and the open
   fails with an error other than EINTR, that very step aborts the process
   inside init_once; and whenever the process has been aborted there,
   urandom_fd is still kUnset, the once-guard has not completed, no
   CRYPTO_sysrand call that needs the source has returned and no byte has
   been written. *)
C11_NoSourceIsFatal ==
  [][/\ \A t \in Threads :
          (pc[t] = "init_open" /\ init_fd = kUnset /\ init_fd' = -1)
            => (aborted' = "init_nofd" /\ abortBy' = t /\ pc'[t] = "init_open")
     /\ aborted' = "init_nofd"
          => /\ urandom_fd' = kUnset
             /\ once' = "running"
             /\ NothingDelivered']_vars

\* the open failed with nothing pending and the process was aborted while
\* another thread's CRYPTO_sysrand call was waiting at the guard
C11_Witness ==
  /\ aborted = "init_nofd"
  /\ req_read = kUnset /\ init_fd = -1 /\ opens = 0
  /\ urandom_fd = kUnset
  /\ \E t, u \in Threads :
       /\ t # u /\ abortBy = t
       /\ InCall(t, "sysrand") /\ pc[t] = "init_open"
       /\ InCall(u, "sysrand") /\ requested[u] > 0 /\ pc[u] = "sys_once"

(* C12: in a BORINGSSL_FIPS build on the legacy path, every successful
   RNDGETENTCNT query counts as one poll and the loop is left exactly when
   the reading is at least kBitsNeeded, so while the loop is running every
   reading so far was below the threshold and the number of polls at the
   exit is the position of the first sufficient reading; urandom_fd is
   committed only after such a reading, nothing is delivered to any caller
   while urandom_fd is uncommitted, and a failed query aborts the process
   with urandom_fd still kUnset. *)
C12_FipsWaitsForEntropy ==
  [][/\ \A t \in Threads :
          (pc[t] = "init_fips" /\ polls' # polls)
            => /\ polls' = polls + 1
               /\ pc'[t] = (IF entropy_bits' >= kBitsNeeded
                            THEN "init_getfd" ELSE "init_fips")
               /\ urandom_fd' = kUnset /\ aborted' = "none"
     /\ \A t \in Threads :
          (pc'[t] = "init_fips" /\ polls' > 0) => entropy_bits' < kBitsNeeded
     /\ (fips /\ urandom_fd = kUnset /\ urandom_fd' >= 0)
          => (entropy_bits >= kBitsNeeded /\ polls >= 1)
     /\ urandom_fd' = kUnset => NothingDelivered'
     /\ aborted' = "init_ioctl"
          => (fips /\ urandom_fd' = kUnset /\ once' = "running")]_vars

\* readings 10 or 100, again 10 or 100, then 256: the loop was left at the
\* third poll, nothing is committed yet and another thread's CRYPTO_sysrand
\* call is still waiting at the guard
C12_Witness ==
  /\ fips /\ Running
  /\ polls = 3 /\ entropy_bits = kBitsNeeded
  /\ first_iteration = 0 /\ diag_fips = 1
  /\ urandom_fd = kUnset
  /\ \E t, u \in Threads :
       /\ t # u
       /\ pc[t] = "init_getfd"
       /\ InCall(u, "sysrand") /\ requested[u] > 0 /\ pc[u] = "sys_once"

\* the positions inside init_once
InitPcs ==
  {"init_read", "init_probe", "init_block", "init_open", "init_fips",
   "init_getfd", "init_setfd", "init_commit", "init_ret"}

(* C13: a thread that is about to read urandom_fd (at the comparison of
   RAND_set_urandom_fd or in the fill loop), or that has read it, made a
   transfer or written a byte, does so only when the once-guard has
   completed: init_once has returned, no thread is inside it, and urandom_fd
   is not kUnset. *)
C13_NoUseBeforeGuard ==
  \A t \in Threads :
    (\/ pc[t] \in {"set_check", "fill"}
     \/ obs[t] # {} \/ xfer[t] # "none" \/ buf[t] # {})
      => /\ once = "done"
         /\ urandom_fd # kUnset
         /\ \A u \in Threads : pc[u] \notin InitPcs

\* two CRYPTO_sysrand calls are in the fill loop on the committed legacy
\* descriptor at the same time, each having read urandom_fd and written bytes
C13_Witness ==
  /\ LegacyCommitted
  /\ \E t, u \in Threads :
       /\ t # u
       /\ InCall(t, "sysrand") /\ pc[t] = "fill" /\ buf[t] # {}
       /\ InCall(u, "sysrand") /\ pc[u] = "fill" /\ buf[u] # {}
       /\ obs[t] = {urandom_fd} /\ obs[u] = {urandom_fd}

\* the non-blocking probe returned EAGAIN: the only place the pool-not-seeded
\* message is printed
ProbeSaidNotSeeded == diag_seed > 0

(* C14 (as claimed): once the non-blocking probe has failed with EAGAIN,
   init_once never goes on to the legacy path: it is never at the open or at
   any later legacy step, never opens /dev/urandom and never commits a
   descriptor, whatever the blocking call returns. *)
C14_BlockingUntilModern ==
  ProbeSaidNotSeeded =>
    /\ \A t \in Threads :
         pc[t] \notin {"init_open", "init_fips", "init_getfd", "init_setfd",
                       "init_commit"}
    /\ opens = 0
    /\ ~LegacyCommitted

(* C15: whenever urandom_fd holds a legacy descriptor, that descriptor has
   close-on-exec set unless F_GETFD failed (which init_once survives only
   for ENOSYS); the same already holds when init_once is about to assign
   urandom_fd, which is then still kUnset; and an abort at either fcntl call
   leaves urandom_fd kUnset and the once-guard incomplete. *)
C15_CommittedIsCloexec ==
  /\ LegacyCommitted => (fdtab[urandom_fd].cloexec \/ flags = -1)
  /\ \A t \in Threads :
       pc[t] = "init_commit"
         => /\ urandom_fd = kUnset
            /\ fdtab[init_fd].cloexec \/ flags = -1
  /\ aborted \in {"init_getfd", "init_setfd"}
       => (urandom_fd = kUnset /\ once = "running")

\* an adopted override duplicate is committed with close-on-exec set, and the
\* call that registered it has returned
C15_Witness ==
  /\ LegacyCommitted /\ Running
  /\ fdtab[urandom_fd].origin = "dup"
  /\ fdtab[urandom_fd].cloexec /\ flags = 1
  /\ \E t \in Threads : InCall(t, "set") /\ ret[t] /\ fd[t] = urandom_fd

(* C16: whenever urandom_fd holds a legacy descriptor, that descriptor is
   open and has never been closed; and a step that closes a descriptor is
   the comparison of a RAND_set_urandom_fd call that found kHaveGetrandom
   and closes that call's own duplicate, so no step of any thread closes a
   committed descriptor. *)
C16_CommittedStaysOpen ==
  [][/\ urandom_fd' >= 0
          => (IsOpen(fdtab', urandom_fd') /\ closes'[urandom_fd'] = 0)
     /\ \A n \in Fds :
          (closes'[n] # closes[n] \/ (fdtab[n].open /\ ~fdtab'[n].open))
            => /\ urandom_fd = kHaveGetrandom
               /\ n # urandom_fd'
               /\ \E t \in Threads :
                    pc[t] = "set_check" /\ fd[t] = n /\ ret'[t]]_vars

\* with an adopted duplicate committed and the call that registered it
\* returned, another thread's CRYPTO_sysrand call has read bytes from it
C16_Witness ==
  /\ LegacyCommitted /\ Running
  /\ fdtab[urandom_fd].origin = "dup" /\ IsOpen(fdtab, urandom_fd)
  /\ \E t, u \in Threads :
       /\ t # u
       /\ InCall(t, "set") /\ ret[t] /\ fd[t] = urandom_fd
       /\ InCall(u, "sysrand") /\ xfer[u] = "read" /\ buf[u] # {}

(* C17: a transfer of the fill loop that returns 0, or -1 with an errno
   other than EINTR, aborts the process in that very step: the call stays in
   the loop and never returns, with whatever bytes it had already written;
   and a CRYPTO_sysrand call that needed the source has returned only after
   a transfer that delivered bytes. *)
C17_FatalTransferAborts ==
  [][/\ \A t \in Threads :
          (pc[t] = "fill" /\ ~intr'[t] /\ last_r'[t] \in {"zero", "minus_one"})
            => /\ aborted' = "fill" /\ abortBy' = t
               /\ pc'[t] = "fill" /\ ~ret'[t]
               /\ buf'[t] = buf[t] /\ len'[t] = len[t]
     /\ \A t \in Threads :
          (call'[t] = "sysrand" /\ requested'[t] > 0 /\ ret'[t])
            => last_r'[t] = "bytes"]_vars

\* a read returned 0 after an earlier one had delivered part of the request:
\* the process was aborted with those bytes written
C17_Witness ==
  \E t \in Threads :
    /\ aborted = "fill" /\ abortBy = t
    /\ InCall(t, "sysrand") /\ ~ret[t]
    /\ last_r[t] = "zero" /\ xfer[t] = "read"
    /\ buf[t] # {} /\ len[t] > 0

(* C18: once a source is committed every transfer uses it and nothing else:
   with kHaveGetrandom committed a transfer is a getrandom call, its failure
   aborts the process, and no descriptor is opened or read; with a legacy
   descriptor committed a transfer is a read of that descriptor.  A transfer
   never changes the committed source. *)
C18_TransfersUseCommittedSource ==
  [][\A t \in Threads :
       /\ (pc[t] = "fill" /\ xfer'[t] # "none")
            => /\ OncePassed(once)
               /\ urandom_fd' = urandom_fd
               /\ opens' = opens
               /\ IF urandom_fd = kHaveGetrandom
                    THEN xfer'[t] = "getrandom" /\ obs'[t] = {kHaveGetrandom}
                    ELSE xfer'[t] = "read" /\ obs'[t] = {urandom_fd}
                         /\ urandom_fd \in Fds
       /\ (/\ pc[t] = "fill" /\ urandom_fd = kHaveGetrandom
           /\ last_r'[t] = "minus_one" /\ ~intr'[t])
            => /\ aborted' = "fill" /\ abortBy' = t
               /\ xfer'[t] = "getrandom"
               /\ fdtab' = fdtab]_vars

\* getrandom is committed while a descriptor is open in the process; one
\* call was served by getrandom and another was aborted by its failure
C18_Witness ==
  \E t, u \in Threads :
    /\ urandom_fd = kHaveGetrandom
    /\ \E n \in Fds : IsOpen(fdtab, n)
    /\ aborted = "fill" /\ abortBy = t
    /\ xfer[t] = "getrandom" /\ last_r[t] = "minus_one"
    /\ u # t /\ call[u] = "sysrand" /\ ret[u] /\ xfer[u] = "getrandom"
    /\ buf[u] # {}

(* C19: each blocking-wait message is printed at most once in the life of the
   process, exactly when its condition occurs: the pool-not-seeded message
   in the step in which the non-blocking probe returns EAGAIN, the
   too-few-bits message in the step in which the first entropy poll reads
   fewer than kBitsNeeded bits and in no later poll; the printing step leaves
   the committed source as it was. *)
C19_DiagnosticsExactlyOnce ==
  [][/\ diag_seed' \in {0, 1} /\ diag_fips' \in {0, 1}
     /\ (diag_seed' # diag_seed)
          <=> \E t \in Threads :
                pc[t] = "init_probe" /\ pc'[t] = "init_block"
     /\ (diag_fips' # diag_fips)
          <=> \E t \in Threads :
                /\ pc[t] = "init_fips" /\ polls = 0 /\ polls' = 1
                /\ entropy_bits' < kBitsNeeded
     /\ (diag_seed' # diag_seed \/ diag_fips' # diag_fips)
          => /\ initRuns = 1
             /\ urandom_fd' = urandom_fd /\ urandom_fd = kUnset
             /\ init_fd' = init_fd
             /\ urandom_fd_requested' = urandom_fd_requested]_vars

\* both messages were printed in one initialization, and a second reading
\* below the threshold has been taken without a second message
C19_Witness ==
  /\ diag_seed = 1 /\ diag_fips = 1
  /\ polls = 2 /\ entropy_bits < kBitsNeeded
  /\ first_iteration = 0
  /\ \E t \in Threads : pc[t] = "init_fips"

\* a RAND_set_urandom_fd call of thread t has not yet returned
SetInProgress(t) == call[t] = "set" /\ ~ret[t]

\* the descriptors made by the dup of line 189 that are still open
OpenDuplicates == {n \in Fds : IsOpen(fdtab, n) /\ fdtab[n].origin = "dup"}

(* C20: while the process is running and no RAND_set_urandom_fd call is in
   progress, every descriptor made by the dup of line 189 is closed or is the
   committed legacy descriptor; and close is only ever applied to an open
   duplicate owned by the closing call, so none is closed twice. *)
C20_DuplicatesOwned ==
  [][/\ (Running /\ \A t \in Threads : ~SetInProgress(t))'
          => (OpenDuplicates \subseteq {urandom_fd})'
     /\ \A n \in Fds :
          closes'[n] # closes[n]
            => /\ closes'[n] = closes[n] + 1
               /\ n \in OpenDuplicates
               /\ ~IsOpen(fdtab', n)
               /\ n # urandom_fd
               /\ \E t \in Threads :
                    /\ pc[t] = "set_check" /\ fd[t] = n /\ ret'[t]
                    /\ \A u \in Threads \ {t} :
                         SetInProgress(u) => fd[u] # n]_vars

\* with getrandom committed two calls have returned, each having closed its
\* own duplicate, which took the same descriptor number both times
C20_Witness ==
  /\ Running
  /\ \A t \in Threads : ~SetInProgress(t)
  /\ urandom_fd = kHaveGetrandom
  /\ OpenDuplicates = {}
  /\ \E n \in Fds : closes[n] = 2
  /\ \E t \in Threads : call[t] = "set" /\ ret[t]

====
